---- MODULE Spec2Model ----
(***************************************************************************)
(* Model of shopify_scraper.py: the pagination loop of                     *)
(* scrape_shopify_products, the field projection extract_product_info and  *)
(* the top-level flow main.                                                *)
(*                                                                         *)
(* Python values are encoded as tagged records: PyNone, PyStr(chars),      *)
(* PyList(items), PyDict(function from key strings to values), PyVal(x)    *)
(* (an opaque scalar).  A str is a sequence of one-character strings.      *)
(***************************************************************************)
EXTENDS Integers, Sequences, FiniteSets, TLC

VARIABLES
    argv,          \* sys.argv
    store,         \* the shape of the tags field the store's endpoint serves
    pc,            \* position in main / scrape_shopify_products
    store_url,     \* scrape_shopify_products: store_url after normalisation
    output_file,   \* main: output_file
    all_products,  \* scrape_shopify_products: all_products
    page,          \* scrape_shopify_products: page
    resp,          \* the answer to the latest request, and the page it asked for
    answers,       \* history: the answers to the requests, in order
    events,        \* history: requests issued and sleeps taken, in order
    console,       \* history: error messages printed
    file,          \* the output file: <<>> until written, then <<contents>>
    status,        \* process status: "running", "exit0", "exit1"
    product,       \* extract_product_info: the argument
    projected      \* extract_product_info: what the call returned or raised

vars == <<argv, store, pc, store_url, output_file, all_products, page,
          resp, answers, events, console, file, status, product, projected>>

-----------------------------------------------------------------------------
(* Bounds of the model *)

\* requests of one run that are modelled exactly
MaxRequests == 3

\* longest tags string given to extract_product_info
MaxTagLen == 4

\* longest variants list and longest images list given to extract_product_info
MaxListLen == 2

\* most pieces a store URL given on the command line is made of
MaxUrlParts == 3

-----------------------------------------------------------------------------
(* Python values *)

PyNone == [t |-> "None"]
PyStr(s) == [t |-> "str", v |-> s]
PyList(xs) == [t |-> "list", v |-> xs]
PyDict(d) == [t |-> "dict", v |-> d]
PyVal(x) == [t |-> "val", v |-> x]

\* dict.get(key, default)
Get(d, k, default) == IF k \in DOMAIN d.v THEN d.v[k] ELSE default

\* bool(x) of a value
Truthy(x) ==
    CASE x.t = "None" -> FALSE
      [] x.t = "str" -> x.v # <<>>
      [] x.t = "list" -> x.v # <<>>
      [] x.t = "dict" -> DOMAIN x.v # {}
      [] OTHER -> TRUE

-----------------------------------------------------------------------------
(* Strings *)

Https == <<"h", "t", "t", "p", "s", ":", "/", "/">>
Http == <<"h", "t", "t", "p", ":", "/", "/">>

\* str.startswith(prefix)
StartsWith(s, prefix) ==
    /\ Len(s) >= Len(prefix)
    /\ SubSeq(s, 1, Len(prefix)) = prefix

\* str.rstrip('/') as it would be if it removed one trailing '/' only
RStripSlash_Once(s) ==
    IF s # <<>> /\ s[Len(s)] = "/"
    THEN SubSeq(s, 1, Len(s) - 1)
    ELSE s

\* str.rstrip('/'): every trailing '/' is removed
RECURSIVE RStripSlash(_)
RStripSlash(s) ==
    IF s # <<>> /\ s[Len(s)] = "/"
    THEN RStripSlash(SubSeq(s, 1, Len(s) - 1))
    ELSE s

\* lines 26-28
NormalizeUrl(s) ==
    RStripSlash(IF StartsWith(s, Http) \/ StartsWith(s, Https)
                THEN s
                ELSE Https \o s)

-----------------------------------------------------------------------------
(* The endpoint *)

\* line 32
limit == 250

\* line 14: the default of the delay parameter, which main leaves as it is
delay == 1

\* line 70
RateLimitWait == 10

\* the tags field of the products a store serves
TagsShapes == {"string", "list"}

TagsField(shape) ==
    CASE shape = "string" -> "tags" :> PyStr(<<"a", ",", " ", "b">>)
      [] shape = "list" -> "tags" :> PyList(<<PyStr(<<"a">>), PyStr(<<"b">>)>>)

\* the i-th product of the page-p listing of a store
ProductAt(shape, p, i) == PyDict(("id" :> PyVal(<<p, i>>)) @@ TagsField(shape))

\* the products array of a page-p answer with n products
PageProducts(shape, p, n) == [i \in 1..n |-> ProductAt(shape, p, i)]

PageSizes == {0, 1, limit - 1, limit, limit + 1}

\* What a request can be answered with.
\*   ok          200, a JSON object whose products array has n elements
\*   ok_nokey    200, a JSON object without a products key
\*   ok_null     200, a JSON object whose products value is null
\*   http404, http429, http500   urlopen raises HTTPError with that code
\*   urlerror    urlopen raises URLError
\*   badjson     200, the body decodes as UTF-8 and json.loads raises
\*               JSONDecodeError
\*   readtimeout 200, response.read() raises socket.timeout
\*   badutf8     200, the body is not UTF-8: decode raises UnicodeDecodeError
\*   notobject   200, the body is a JSON array: data.get raises
\*               AttributeError
OkResponses == [kind : {"ok"}, n : PageSizes]
CaughtKinds == {"http404", "http500", "urlerror", "badjson"}
UncaughtKinds == {"readtimeout", "badutf8", "notobject"}
OtherResponses ==
    [kind : {"ok_nokey", "ok_null", "http429"} \cup CaughtKinds \cup UncaughtKinds,
     n : {0}]
Responses == OkResponses \cup OtherResponses
NoResponse == [kind |-> "none", n |-> 0, page |-> 0]

Req(p) == [ev |-> "request", arg |-> p]
Sleep(s) == [ev |-> "sleep", arg |-> s]

-----------------------------------------------------------------------------
(* extract_product_info *)

CommaSpace == <<",", " ">>

\* the least index at which sep occurs in s, 0 if it does not occur
FindFrom(s, sep) ==
    LET hits == {i \in 1..(Len(s) - Len(sep) + 1) :
                    SubSeq(s, i, i + Len(sep) - 1) = sep}
    IN  IF hits = {} THEN 0 ELSE CHOOSE i \in hits : \A j \in hits : i <= j

\* str.split(sep) for a non-empty sep: the pieces between the occurrences of
\* sep, found left to right without overlap
RECURSIVE Split(_, _)
Split(s, sep) ==
    LET i == FindFrom(s, sep)
    IN  IF i = 0
        THEN <<s>>
        ELSE <<SubSeq(s, 1, i - 1)>> \o Split(SubSeq(s, i + Len(sep), Len(s)), sep)

\* line 96
ProjectTags(p) ==
    IF Truthy(Get(p, "tags", PyNone))
    THEN PyList([i \in 1..Len(Split(Get(p, "tags", PyStr(<<>>)).v, CommaSpace)) |->
                    PyStr(Split(Get(p, "tags", PyStr(<<>>)).v, CommaSpace)[i])])
    ELSE PyList(<<>>)

\* line 96 raises AttributeError: a true tags value that has no split method
TagsRaises(p) ==
    /\ Truthy(Get(p, "tags", PyNone))
    /\ Get(p, "tags", PyNone).t # "str"

\* the elements a for loop over x visits (x a list or a str)
Items(x) ==
    IF x.t = "list"
    THEN x.v
    ELSE [i \in 1..Len(x.v) |-> PyStr(<<x.v[i]>>)]

\* a for loop over x whose body calls .get on each element raises: x is not
\* iterable, or an element is not a dict
LoopRaises(x) ==
    \/ x.t \notin {"list", "str"}
    \/ \E i \in 1..Len(Items(x)) : Items(x)[i].t # "dict"

\* lines 102-112
ProjectVariant(v) ==
    PyDict([id |-> Get(v, "id", PyNone),
            title |-> Get(v, "title", PyNone),
            price |-> Get(v, "price", PyNone),
            compare_at_price |-> Get(v, "compare_at_price", PyNone),
            sku |-> Get(v, "sku", PyNone),
            available |-> Get(v, "available", PyNone),
            inventory_quantity |-> Get(v, "inventory_quantity", PyNone),
            weight |-> Get(v, "weight", PyNone),
            weight_unit |-> Get(v, "weight_unit", PyNone)])

\* extract_product_info as it would raise if line 107 read variant['sku']
ExtractRaises_IndexSku(p) ==
    \/ p.t # "dict"
    \/ TagsRaises(p)
    \/ LoopRaises(Get(p, "variants", PyList(<<>>)))
    \/ LoopRaises(Get(p, "images", PyList(<<>>)))
    \/ \E i \in 1..Len(Items(Get(p, "variants", PyList(<<>>)))) :
          "sku" \notin DOMAIN Items(Get(p, "variants", PyList(<<>>)))[i].v

\* extract_product_info raises instead of returning
ExtractRaises(p) ==
    \/ p.t # "dict"
    \/ TagsRaises(p)
    \/ LoopRaises(Get(p, "variants", PyList(<<>>)))
    \/ LoopRaises(Get(p, "images", PyList(<<>>)))

\* extract_product_info as it would be if line 115 kept only the images that
\* have a src
ExtractProductInfo_DropNoSrc(p) ==
    LET variants == Items(Get(p, "variants", PyList(<<>>)))
        images == SelectSeq(Items(Get(p, "images", PyList(<<>>))),
                            LAMBDA img : "src" \in DOMAIN img.v)
    IN  PyDict([id |-> Get(p, "id", PyNone),
                title |-> Get(p, "title", PyNone),
                handle |-> Get(p, "handle", PyNone),
                vendor |-> Get(p, "vendor", PyNone),
                product_type |-> Get(p, "product_type", PyNone),
                tags |-> ProjectTags(p),
                description |-> Get(p, "body_html", PyStr(<<>>)),
                created_at |-> Get(p, "created_at", PyNone),
                updated_at |-> Get(p, "updated_at", PyNone),
                published_at |-> Get(p, "published_at", PyNone),
                variants |-> PyList([i \in 1..Len(variants) |->
                                        ProjectVariant(variants[i])]),
                images |-> PyList([i \in 1..Len(images) |->
                                      Get(images[i], "src", PyNone)]),
                options |-> Get(p, "options", PyList(<<>>))])

\* extract_product_info as it would be with the two timestamps of lines 98-99
\* read from each other's field
ExtractProductInfo_SwapDates(p) ==
    LET variants == Items(Get(p, "variants", PyList(<<>>)))
        images == Items(Get(p, "images", PyList(<<>>)))
    IN  PyDict([id |-> Get(p, "id", PyNone),
                title |-> Get(p, "title", PyNone),
                handle |-> Get(p, "handle", PyNone),
                vendor |-> Get(p, "vendor", PyNone),
                product_type |-> Get(p, "product_type", PyNone),
                tags |-> ProjectTags(p),
                description |-> Get(p, "body_html", PyStr(<<>>)),
                created_at |-> Get(p, "updated_at", PyNone),
                updated_at |-> Get(p, "created_at", PyNone),
                published_at |-> Get(p, "published_at", PyNone),
                variants |-> PyList([i \in 1..Len(variants) |->
                                        ProjectVariant(variants[i])]),
                images |-> PyList([i \in 1..Len(images) |->
                                      Get(images[i], "src", PyNone)]),
                options |-> Get(p, "options", PyList(<<>>))])

\* lines 85-117: the dict extract_product_info returns when it returns
ExtractProductInfo(p) ==
    LET variants == Items(Get(p, "variants", PyList(<<>>)))
        images == Items(Get(p, "images", PyList(<<>>)))
    IN  PyDict([id |-> Get(p, "id", PyNone),
                title |-> Get(p, "title", PyNone),
                handle |-> Get(p, "handle", PyNone),
                vendor |-> Get(p, "vendor", PyNone),
                product_type |-> Get(p, "product_type", PyNone),
                tags |-> ProjectTags(p),
                description |-> Get(p, "body_html", PyStr(<<>>)),
                created_at |-> Get(p, "created_at", PyNone),
                updated_at |-> Get(p, "updated_at", PyNone),
                published_at |-> Get(p, "published_at", PyNone),
                variants |-> PyList([i \in 1..Len(variants) |->
                                        ProjectVariant(variants[i])]),
                images |-> PyList([i \in 1..Len(images) |->
                                      Get(images[i], "src", PyNone)]),
                options |-> Get(p, "options", PyList(<<>>))])

-----------------------------------------------------------------------------
(* The command line *)

Script == <<"x">>
DefaultOutput == <<"p">>
Argvs ==
    {<<Script>>,
     <<Script, <<"s">>>>,
     <<Script, Https \o <<"s", "/">>, <<"o">>>>}

Init ==
    /\ argv \in Argvs
    /\ store \in TagsShapes
    /\ pc = "main"
    /\ store_url = <<>>
    /\ output_file = <<>>
    /\ all_products = <<>>
    /\ page = 1
    /\ resp = NoResponse
    /\ answers = <<>>
    /\ events = <<>>
    /\ console = <<>>
    /\ file = <<>>
    /\ status = "running"
    /\ product = PyNone
    /\ projected = PyNone

-----------------------------------------------------------------------------
(* main, up to the call of scrape_shopify_products *)

\* lines 123-126
Main_Usage ==
    /\ pc = "main"
    /\ Len(argv) < 2
    /\ console' = Append(console, "usage")
    /\ status' = "exit1"
    /\ pc' = "exited"
    /\ UNCHANGED <<argv, store, store_url, output_file, all_products, page,
                   resp, answers, events, file, product, projected>>

\* lines 128-132 and 25-34
Main_Scrape ==
    /\ pc = "main"
    /\ ~(Len(argv) < 2)
    /\ output_file' = IF Len(argv) > 2 THEN argv[3] ELSE DefaultOutput
    /\ store_url' = NormalizeUrl(argv[2])
    /\ all_products' = <<>>
    /\ page' = 1
    /\ pc' = "loop"
    /\ UNCHANGED <<argv, store, resp, answers, events, console, file, status,
                   product, projected>>

-----------------------------------------------------------------------------
(* scrape_shopify_products: one pass of the while loop per answer.  The    *)
(* operators below compute the locals and the histories after the pass     *)
(* from their values before it.                                            *)

NumRequests == Cardinality({i \in DOMAIN events : events[i].ev = "request"})

Locals ==
    [pc |-> pc, status |-> status, all_products |-> all_products,
     page |-> page, events |-> events, console |-> console]

\* lines 37-49: the request for the current page is issued
Requested == [Locals EXCEPT !.events = Append(@, Req(page))]

\* a print of an error message
Report(s, message) == [s EXCEPT !.console = Append(@, message)]

\* time.sleep(seconds)
Slept(s, seconds) == [s EXCEPT !.events = Append(@, Sleep(seconds))]

\* break, and line 82
Break(s) == [s EXCEPT !.pc = "returned"]

\* line 51: data.get('products', []); a null products value is as false as []
ProductsOf(r) ==
    IF r.kind = "ok" THEN PageProducts(store, page, r.n) ELSE <<>>

\* WithBody with line 56 assigning the page instead of extending with it
WithBody_Assign(r) ==
    LET products == ProductsOf(r)
        extended == [Requested EXCEPT !.all_products = products]
    IN  IF products = <<>>
        THEN Break(Requested)
        ELSE IF Len(products) < limit
        THEN Break(extended)
        ELSE Slept([extended EXCEPT !.page = @ + 1], delay)

\* WithBody with the sleep of line 63 moved before the test of line 59
WithBody_SleepFirst(r) ==
    LET products == ProductsOf(r)
        extended == Slept([Requested EXCEPT !.all_products = @ \o products], delay)
    IN  IF products = <<>>
        THEN Break(Requested)
        ELSE IF Len(products) < limit
        THEN Break(extended)
        ELSE [extended EXCEPT !.page = @ + 1]

\* WithBody with line 54 a continue to the next page instead of a break
WithBody_SkipEmpty(r) ==
    LET products == ProductsOf(r)
        extended == [Requested EXCEPT !.all_products = @ \o products]
    IN  IF products = <<>>
        THEN [Requested EXCEPT !.page = @ + 1]
        ELSE IF Len(products) < limit
        THEN Break(extended)
        ELSE Slept([extended EXCEPT !.page = @ + 1], delay)

\* WithBody without the test of lines 59-60
WithBody_NoShortBreak(r) ==
    LET products == ProductsOf(r)
        extended == [Requested EXCEPT !.all_products = @ \o products]
    IN  IF products = <<>>
        THEN Break(Requested)
        ELSE Slept([extended EXCEPT !.page = @ + 1], delay)

\* WithBody with the increment of line 62 moved before the test of line 59
WithBody_EarlyIncrement(r) ==
    LET products == ProductsOf(r)
        extended == [Requested EXCEPT !.all_products = @ \o products,
                                      !.page = @ + 1]
    IN  IF products = <<>>
        THEN Break(Requested)
        ELSE IF Len(products) < limit
        THEN Break(extended)
        ELSE Slept(extended, delay)

\* lines 49-63: the body of the with statement, for a parsed answer r
WithBody(r) ==
    LET products == ProductsOf(r)
        extended == [Requested EXCEPT !.all_products = @ \o products]
    IN  IF products = <<>>
        THEN Break(Requested)
        ELSE IF Len(products) < limit
        THEN Break(extended)
        ELSE Slept([extended EXCEPT !.page = @ + 1], delay)

\* RateLimited starting the pagination again from page 1
RateLimited_Restart ==
    Slept([Report(Requested, "rate_limited") EXCEPT !.page = 1], RateLimitWait)

\* RateLimited moving on to the next page
RateLimited_NextPage ==
    Slept([Report(Requested, "rate_limited") EXCEPT !.page = @ + 1], RateLimitWait)

\* RateLimited without the continue of line 71: control falls to line 74
RateLimited_GiveUp ==
    Break(Slept(Report(Requested, "rate_limited"), RateLimitWait))

\* lines 68-71
RateLimited == Slept(Report(Requested, "rate_limited"), RateLimitWait)

\* lines 65-74
ExceptHTTPError(r) ==
    IF r.kind = "http404"
    THEN Break(Report(Requested, "not_found"))
    ELSE IF r.kind = "http429"
    THEN RateLimited
    ELSE Break(Report(Requested, "http_error"))

\* lines 75-77
ExceptURLError == Break(Report(Requested, "url_error"))

\* ExceptJSONDecodeError giving up what was accumulated
ExceptJSONDecodeError_Discard ==
    [Break(Report(Requested, "invalid_json")) EXCEPT !.all_products = <<>>]

\* lines 78-80
ExceptJSONDecodeError == Break(Report(Requested, "invalid_json"))

\* lines 49-51 raise what no except clause of lines 65-80 names: the exception
\* leaves scrape_shopify_products and main, and the interpreter prints the
\* traceback and exits with status 1
Propagate ==
    [Report(Requested, "traceback") EXCEPT !.pc = "raised", !.status = "exit1"]

PageKinds == {"ok", "ok_nokey", "ok_null"}
HTTPErrorKinds == {"http404", "http429", "http500"}

\* Pass as it would be if line 51 read data['products']: a body without the
\* key raises KeyError, which no except clause names
Pass_IndexProducts(r) ==
    IF r.kind = "ok_nokey" THEN Propagate
    ELSE IF r.kind \in PageKinds THEN WithBody(r)
    ELSE IF r.kind \in HTTPErrorKinds THEN ExceptHTTPError(r)
    ELSE IF r.kind = "urlerror" THEN ExceptURLError
    ELSE IF r.kind = "badjson" THEN ExceptJSONDecodeError
    ELSE Propagate

\* lines 36-80: one pass of the loop, the request being answered with r
Pass(r) ==
    IF r.kind \in PageKinds THEN WithBody(r)
    ELSE IF r.kind \in HTTPErrorKinds THEN ExceptHTTPError(r)
    ELSE IF r.kind = "urlerror" THEN ExceptURLError
    ELSE IF r.kind = "badjson" THEN ExceptJSONDecodeError
    ELSE Propagate

\* the pass answered with r takes the locals to s
Commit(r, s) ==
    /\ resp' = [kind |-> r.kind, n |-> r.n, page |-> page]
    /\ answers' = Append(answers, r)
    /\ pc' = s.pc
    /\ status' = s.status
    /\ all_products' = s.all_products
    /\ page' = s.page
    /\ events' = s.events
    /\ console' = s.console
    /\ UNCHANGED <<argv, store, store_url, output_file, file, product, projected>>

InLoop ==
    /\ pc = "loop"
    /\ NumRequests < MaxRequests

Fetch_Page ==
    /\ InLoop
    /\ \E r \in Responses :
        /\ r.kind \in PageKinds
        /\ Commit(r, Pass(r))

Fetch_HTTPError ==
    /\ InLoop
    /\ \E r \in Responses :
        /\ r.kind \in HTTPErrorKinds
        /\ Commit(r, Pass(r))

Fetch_URLError ==
    /\ InLoop
    /\ \E r \in Responses :
        /\ r.kind = "urlerror"
        /\ Commit(r, Pass(r))

Fetch_JSONDecodeError ==
    /\ InLoop
    /\ \E r \in Responses :
        /\ r.kind = "badjson"
        /\ Commit(r, Pass(r))

Fetch_Uncaught ==
    /\ InLoop
    /\ \E r \in Responses :
        /\ r.kind \in UncaughtKinds
        /\ Commit(r, Pass(r))

\* A pass after MaxRequests requests: the loop goes on as lines 36-80 say, but
\* the model keeps only where control goes; the histories, the page counter
\* and the accumulator keep their values at the horizon.
Fetch_PastHorizon ==
    /\ pc = "loop"
    /\ ~(NumRequests < MaxRequests)
    /\ \E r \in Responses :
        /\ resp' = [kind |-> r.kind, n |-> r.n, page |-> page]
        /\ pc' = Pass(r).pc
        /\ status' = Pass(r).status
    /\ UNCHANGED <<argv, store, store_url, output_file, all_products, page,
                   answers, events, console, file, product, projected>>

-----------------------------------------------------------------------------
(* main, after scrape_shopify_products has returned *)

\* Main_NoProducts as it would be if the test of line 134 came after the
\* file is written: an empty list is saved before the exit
Main_NoProducts_EmptyFile ==
    /\ pc = "returned"
    /\ all_products = <<>>
    /\ file' = <<<<>>>>
    /\ console' = Append(console, "no_products")
    /\ status' = "exit1"
    /\ pc' = "exited"
    /\ UNCHANGED <<argv, store, store_url, output_file, all_products, page,
                   resp, answers, events, product, projected>>

\* lines 134-136
Main_NoProducts ==
    /\ pc = "returned"
    /\ all_products = <<>>
    /\ console' = Append(console, "no_products")
    /\ status' = "exit1"
    /\ pc' = "exited"
    /\ UNCHANGED <<argv, store, store_url, output_file, all_products, page,
                   resp, answers, events, file, product, projected>>

\* line 139 raises: one of the calls of extract_product_info does
CleaningRaises == ~(\A i \in 1..Len(all_products) : ~ExtractRaises(all_products[i]))

\* line 139
CleanedProducts == [i \in 1..Len(all_products) |-> ExtractProductInfo(all_products[i])]

\* line 139 raises: the exception leaves main, and the interpreter exits with 1
Main_ExtractRaises ==
    /\ pc = "returned"
    /\ all_products # <<>>
    /\ CleaningRaises
    /\ console' = Append(console, "traceback")
    /\ status' = "exit1"
    /\ pc' = "exited"
    /\ UNCHANGED <<argv, store, store_url, output_file, all_products, page,
                   resp, answers, events, file, product, projected>>

\* line 142 raises OSError (the file cannot be opened for writing)
Main_OpenFails ==
    /\ pc = "returned"
    /\ all_products # <<>>
    /\ ~CleaningRaises
    /\ console' = Append(console, "traceback")
    /\ status' = "exit1"
    /\ pc' = "exited"
    /\ UNCHANGED <<argv, store, store_url, output_file, all_products, page,
                   resp, answers, events, file, product, projected>>

\* lines 139-153, and the return of main: exit status 0
Main_Save ==
    /\ pc = "returned"
    /\ all_products # <<>>
    /\ ~CleaningRaises
    /\ file' = <<CleanedProducts>>
    /\ status' = "exit0"
    /\ pc' = "exited"
    /\ UNCHANGED <<argv, store, store_url, output_file, all_products, page,
                   resp, answers, events, console, product, projected>>

Next ==
    \/ Main_Usage
    \/ Main_Scrape
    \/ Fetch_Page
    \/ Fetch_HTTPError
    \/ Fetch_URLError
    \/ Fetch_JSONDecodeError
    \/ Fetch_Uncaught
    \/ Main_NoProducts
    \/ Main_ExtractRaises
    \/ Main_OpenFails
    \/ Main_Save

Spec == Init /\ [][Next]_vars

\* The fetch loop alone, for what is claimed of its termination: main calls
\* scrape_shopify_products with a URL, and the run is followed until the
\* function returns or raises.  The shape of the tags the store serves plays
\* no part in the loop.  The program is sequential and runs on: a pass that
\* can be made is made.  Past the horizon the loop keeps running.
LiveInit ==
    /\ Init
    /\ ~(Len(argv) < 2)
    /\ store = "string"

LiveNext ==
    \/ Main_Scrape
    \/ Fetch_Page
    \/ Fetch_HTTPError
    \/ Fetch_URLError
    \/ Fetch_JSONDecodeError
    \/ Fetch_Uncaught
    \/ Fetch_PastHorizon

LiveSpec == LiveInit /\ [][LiveNext]_vars /\ WF_vars(LiveNext)

-----------------------------------------------------------------------------
(* What the histories say about a run *)

Last(q) == q[Len(q)]

Stopped == pc \in {"returned", "exited"}

\* the page numbers requested, in order
ReqPages ==
    LET reqs == SelectSeq(events, LAMBDA e : e.ev = "request")
    IN  [i \in 1..Len(reqs) |-> reqs[i].arg]

\* every answer is a page: full pages of exactly limit products, then one
\* page of fewer
ErrorFree(ans) ==
    /\ ans # <<>>
    /\ \A i \in 1..Len(ans) :
        /\ ans[i].kind = "ok"
        /\ i < Len(ans) => ans[i].n = limit
        /\ i = Len(ans) => ans[i].n < limit

\* the products of the first m answers that were pages, each page under the
\* page number it was requested with
RECURSIVE PagesInOrder(_, _, _)
PagesInOrder(ans, pages, m) ==
    IF m = 0
    THEN <<>>
    ELSE PagesInOrder(ans, pages, m - 1)
           \o (IF ans[m].kind = "ok"
               THEN PageProducts(store, pages[m], ans[m].n)
               ELSE <<>>)

-----------------------------------------------------------------------------
(* Claims about the fetch loop *)

\* C1: when the endpoint answers N full pages of exactly 250 products and
\* then a page of k < 250 products, with no error, the Fetcher returns
\* 250*N+k records: pages 1..N+1 concatenated in page order, each page in its
\* own order.
C1_FullCatalog ==
    ErrorFree(answers) =>
        /\ Stopped
        /\ all_products = PagesInOrder(answers, [i \in 1..Len(answers) |-> i],
                                       Len(answers))
        /\ Len(all_products) = 250 * (Len(answers) - 1) + Last(answers).n

C1_Witness ==
    /\ pc = "returned"
    /\ ErrorFree(answers)
    /\ Len(answers) = 3
    /\ Last(answers).n = 249

\* C2: in such a run the Fetcher issues the requests for pages 1, 2, ..., N+1
\* in that order and nothing else, with one sleep of the delay after each
\* full page and before the next request, and no sleep after the last page.
C2_RequestsAndSleeps ==
    ErrorFree(answers) =>
        events = [j \in 1..(2 * Len(answers) - 1) |->
                     IF j % 2 = 1 THEN Req((j + 1) \div 2) ELSE Sleep(delay)]

C2_Witness ==
    /\ pc = "returned"
    /\ ErrorFree(answers)
    /\ Len(answers) = 2
    /\ events = <<Req(1), Sleep(1), Req(2)>>

\* C3: a request for page p answered with 429 leaves the page counter and
\* the accumulator as they were and the loop running, is followed by a sleep
\* of 10 seconds, and the next request is for page p again.
C3_Frame ==
    (/\ Len(answers') = Len(answers) + 1
     /\ Last(answers').kind = "http429")
        => /\ page' = page
           /\ all_products' = all_products
           /\ pc' = "loop"
           /\ events' = events \o <<Req(page), Sleep(10)>>

C3_SamePage ==
    \A i \in 1..(Len(ReqPages) - 1) :
        answers[i].kind = "http429" => ReqPages[i + 1] = ReqPages[i]

C3_RateLimitRetry == []C3_SamePage /\ [][C3_Frame]_vars

C3_Witness ==
    /\ Len(answers) = 3
    /\ answers[1] = [kind |-> "ok", n |-> 250]
    /\ answers[2].kind = "http429"
    /\ answers[3] = [kind |-> "ok", n |-> 1]
    /\ ReqPages = <<1, 2, 2>>

\* C4: when a 404, another HTTP error status other than 429, a URLError or a
\* body that is not JSON stops the loop, the failing request is the last one
\* issued and what is returned is exactly the pages accumulated before it.
C4_PartialResults ==
    (answers # <<>> /\ Last(answers).kind \in CaughtKinds) =>
        /\ Stopped
        /\ Len(ReqPages) = Len(answers)
        /\ Last(events).ev = "request"
        /\ all_products = PagesInOrder(answers, ReqPages, Len(answers) - 1)

C4_Witness ==
    /\ pc = "returned"
    /\ Len(answers) = 3
    /\ answers[1].kind = "ok"
    /\ answers[2].kind = "http429"
    /\ Last(answers).kind = "badjson"
    /\ Len(all_products) = 251

\* C5: no failure met while requesting, reading, decoding or parsing a page
\* leaves the loop as an exception: each one stops the loop and the
\* accumulated records are returned.
C5_NoPropagation ==
    (answers # <<>> /\ Last(answers).kind \in CaughtKinds \cup UncaughtKinds) =>
        Stopped

\* C6: the exit code is 1 when the store URL argument is missing or no
\* product was scraped, and 0 in every other run, whatever error ended the
\* fetch loop.  Stated for the runs that end in the usage message, in the
\* fetch loop, in "no products found" or after the output file is written;
\* the runs that end in line 139 or line 142 raising are left aside.
C6_ExitCode ==
    (/\ status # "running"
     /\ ~(pc = "exited" /\ console # <<>> /\ Last(console) = "traceback")) =>
        ((status = "exit1") <=> (Len(argv) < 2 \/ all_products = <<>>))

\* C9: when the first request is answered with a page of zero products, the
\* Fetcher returns the empty sequence after that one request, without a
\* sleep.
C9_EmptyFirstPage ==
    (answers # <<>> /\ answers[1] = [kind |-> "ok", n |-> 0]) =>
        /\ Stopped
        /\ all_products = <<>>
        /\ events = <<Req(1)>>

C9_Witness ==
    /\ pc = "returned"
    /\ answers = <<[kind |-> "ok", n |-> 0]>>
    /\ all_products = <<>>

-----------------------------------------------------------------------------
(* Claims about termination of the fetch loop, under LiveSpec *)

Terminated == pc \in {"returned", "raised", "exited"}

FullPage(r) == r.kind = "ok" /\ r.n >= limit

\* C7 as stated: the 429 retry is the only way the loop runs without bound;
\* when only finitely many answers are 429, the Fetcher eventually leaves the
\* loop.
C7_OnlyRateLimitLoops ==
    <>[](resp.kind # "http429") => <>Terminated

\* C7, amended: when only finitely many answers are 429 and only finitely
\* many are full pages (250 products or more), the Fetcher eventually leaves
\* the loop: it returns or, for a failure no except clause names, raises.
C7_Termination ==
    <>[](resp.kind # "http429" /\ ~FullPage(resp)) => <>Terminated

C7_Witness ==
    /\ pc = "returned"
    /\ Len(answers) = 3
    /\ answers[1].kind = "http429"
    /\ FullPage(answers[2])
    /\ answers[3] = [kind |-> "ok", n |-> 1]

\* C8: when a request for page p is made and every request for page p is
\* answered with 429, the Fetcher never returns: it stays in the loop at page
\* p forever, and each of the 429 answers is followed by a sleep of 10
\* seconds.
C8_TenSeconds ==
    (NumRequests < MaxRequests /\ resp.kind = "http429") =>
        /\ Last(events) = Sleep(10)
        /\ events[Len(events) - 1] = Req(resp.page)

-----------------------------------------------------------------------------
(* extract_product_info on its own: one call, on a raw product drawn from  *)
(* RawProducts                                                             *)

TagChars == {"a", ",", " "}

\* the strings over TagChars of length at most n
RECURSIVE StringsUpTo(_)
StringsUpTo(n) ==
    IF n = 0
    THEN {<<>>}
    ELSE LET shorter == StringsUpTo(n - 1)
         IN  shorter \cup {Append(w, c) : w \in shorter, c \in TagChars}

\* the tags field of a raw product: absent, null, a string, or the array of
\* strings a storefront may serve
RawTagsFields ==
    {<<>>, "tags" :> PyNone, "tags" :> PyList(<<PyStr(<<"a">>)>>)}
      \cup {"tags" :> PyStr(w) : w \in StringsUpTo(MaxTagLen)}

\* raw products that differ in their tags
TagsProducts == {PyDict(("id" :> PyVal("id")) @@ f) : f \in RawTagsFields}

\* the fields of a raw product that line 91-100 read with get, tags aside
ScalarKeys ==
    {"id", "title", "handle", "vendor", "product_type", "body_html",
     "created_at", "updated_at", "published_at"}

ProductKeys == ScalarKeys \cup {"tags", "variants", "images", "options"}

\* lines 103-111
VariantKeys ==
    {"id", "title", "price", "compare_at_price", "sku", "available",
     "inventory_quantity", "weight", "weight_unit"}

\* a raw variant that has exactly the subfields K, each with a value of its own
VariantWith(K) == PyDict([k \in K |-> PyVal(k)])

\* a value for the field k of a raw product, as the endpoint's schema types it
SampleValue(k) ==
    CASE k = "tags" -> PyStr(<<"a", ",", " ", "b">>)
      [] k = "variants" -> PyList(<<VariantWith(VariantKeys), VariantWith({})>>)
      [] k = "images" -> PyList(<<PyDict("src" :> PyStr(<<"a">>)),
                                  PyDict("alt" :> PyStr(<<"b">>))>>)
      [] k = "options" -> PyList(<<PyVal("option")>>)
      [] OTHER -> PyVal(k)

\* raw products with any subset of the product's fields absent
SparseProducts == {PyDict([k \in K |-> SampleValue(k)]) : K \in SUBSET ProductKeys}

\* raw products whose one variant has any subset of its subfields absent
SparseVariantProducts ==
    {PyDict("variants" :> PyList(<<VariantWith(K)>>)) : K \in SUBSET VariantKeys}

\* the sequences over S of length at most n
RECURSIVE SeqsUpTo(_, _)
SeqsUpTo(S, n) ==
    IF n = 0
    THEN {<<>>}
    ELSE LET shorter == SeqsUpTo(S, n - 1)
         IN  shorter \cup {Append(w, x) : w \in shorter, x \in S}

VariantShapes == {VariantWith({"id", "sku"}), VariantWith({"id"}), VariantWith({})}

ImageShapes ==
    {PyDict("src" :> PyStr(<<"a">>)),
     PyDict("src" :> PyStr(<<"b">>)),
     PyDict("alt" :> PyStr(<<"b">>))}

\* raw products that differ in their lists of variants and of images
ListProducts ==
    {PyDict(("variants" :> PyList(vs)) @@ ("images" :> PyList(is))) :
        vs \in SeqsUpTo(VariantShapes, MaxListLen),
        is \in SeqsUpTo(ImageShapes, MaxListLen)}

RawProducts ==
    TagsProducts \cup SparseProducts \cup SparseVariantProducts \cup ListProducts

Raised == [t |-> "raise"]

ProjInit ==
    /\ Init
    /\ argv = <<Script>>
    /\ store = "string"

ProjStart ==
    /\ pc = "main"
    /\ product = PyNone
    /\ \E p \in RawProducts : product' = p
    /\ pc' = "extract"
    /\ UNCHANGED <<argv, store, store_url, output_file, all_products, page,
                   resp, answers, events, console, file, status, projected>>

\* lines 85-117: the call returns the projection, or raises
Extract ==
    /\ pc = "extract"
    /\ projected' = IF ExtractRaises(product)
                    THEN Raised
                    ELSE ExtractProductInfo(product)
    /\ pc' = "extracted"
    /\ UNCHANGED <<argv, store, store_url, output_file, all_products, page,
                   resp, answers, events, console, file, status, product>>

ProjNext == ProjStart \/ Extract

ProjSpec == ProjInit /\ [][ProjNext]_vars

-----------------------------------------------------------------------------
(* Claims about extract_product_info, under ProjSpec *)

\* the pieces joined with sep between them
RECURSIVE Join(_, _)
Join(pieces, sep) ==
    IF Len(pieces) = 1
    THEN pieces[1]
    ELSE pieces[1] \o sep \o Join(Tail(pieces), sep)

\* s = s.strip(), for the whitespace of TagChars
Trimmed(s) == s = <<>> \/ (s[1] # " " /\ s[Len(s)] # " ")

RawTags == Get(product, "tags", PyNone)

\* C10: for a non-empty string of tags the projection's tags are the pieces
\* of the string between its ", " separators, in order, and every piece is
\* trimmed; for an empty or absent tags field they are the empty sequence.
C10_TrimmedTags ==
    pc = "extracted" =>
        /\ (RawTags.t = "str" /\ RawTags.v # <<>>) =>
              /\ projected.t = "dict"
              /\ projected.v.tags.t = "list"
              /\ projected.v.tags.v # <<>>
              /\ \A i \in 1..Len(projected.v.tags.v) :
                    /\ projected.v.tags.v[i].t = "str"
                    /\ FindFrom(projected.v.tags.v[i].v, CommaSpace) = 0
                    /\ Trimmed(projected.v.tags.v[i].v)
              /\ Join([i \in 1..Len(projected.v.tags.v) |->
                          projected.v.tags.v[i].v], CommaSpace) = RawTags.v
        /\ ("tags" \notin DOMAIN product.v \/ RawTags = PyStr(<<>>)) =>
              /\ projected.t = "dict"
              /\ projected.v.tags = PyList(<<>>)

-----------------------------------------------------------------------------
(* Claims about the projector's handling of absent fields and of lists *)

\* lines 91-116: the keys of the dict extract_product_info returns
OutputKeys ==
    {"id", "title", "handle", "vendor", "product_type", "tags", "description",
     "created_at", "updated_at", "published_at", "variants", "images",
     "options"}

\* x is a list of dicts
ListOfDicts(x) ==
    /\ x.t = "list"
    /\ \A i \in 1..Len(x.v) : x.v[i].t = "dict"

\* every field p has is typed as the endpoint's schema types it: tags a
\* string, variants and images lists of records
SchemaTyped(p) ==
    /\ p.t = "dict"
    /\ "tags" \in DOMAIN p.v => p.v["tags"].t = "str"
    /\ "variants" \in DOMAIN p.v => ListOfDicts(p.v["variants"])
    /\ "images" \in DOMAIN p.v => ListOfDicts(p.v["images"])

RawVariants == Items(Get(product, "variants", PyList(<<>>)))
RawImages == Items(Get(product, "images", PyList(<<>>)))

\* C11: for a raw product with any subset of its fields absent, and any
\* subset of the subfields of each variant and image absent,
\* extract_product_info does not raise and returns a dict with the whole
\* fixed set of keys, in which every variant has the whole fixed set of
\* subfields and each subfield absent from the raw variant is None.
C11_Total ==
    (pc = "extracted" /\ SchemaTyped(product)) =>
        /\ projected.t = "dict"
        /\ DOMAIN projected.v = OutputKeys
        /\ projected.v.variants.t = "list"
        /\ projected.v.images.t = "list"
        /\ Len(projected.v.variants.v) = Len(RawVariants)
        /\ \A i \in 1..Len(RawVariants) :
              /\ projected.v.variants.v[i].t = "dict"
              /\ DOMAIN projected.v.variants.v[i].v = VariantKeys
              /\ \A k \in VariantKeys \ DOMAIN RawVariants[i].v :
                    projected.v.variants.v[i].v[k] = PyNone

\* a product with nothing but one variant, which has nothing but its id
C11_Witness ==
    /\ pc = "extracted"
    /\ product = PyDict("variants" :> PyList(<<VariantWith({"id"})>>))
    /\ projected.t = "dict"
    /\ projected.v.title = PyNone
    /\ projected.v.variants.v[1].v.sku = PyNone
    /\ projected.v.variants.v[1].v.id = PyVal("id")

\* lines 91-100: the key of the output dict under which the field k is put
OutputKey(k) == IF k = "body_html" THEN "description" ELSE k

\* C12 as stated: each of id, title, handle, vendor, product_type, body_html,
\* created_at, updated_at and published_at is in the output unchanged when
\* the raw product has it, and is None when the raw product lacks it.
C12_ScalarsOrNone ==
    (pc = "extracted" /\ projected.t = "dict") =>
        \A k \in ScalarKeys :
            projected.v[OutputKey(k)] = Get(product, k, PyNone)

\* C12 amended: each of id, title, handle, vendor, product_type, created_at,
\* updated_at and published_at is in the output unchanged when the raw
\* product has it and is None when it lacks it; body_html is in the output
\* as description, unchanged when present and the empty string when missing.
C12_ScalarsPassThrough ==
    (pc = "extracted" /\ projected.t = "dict") =>
        /\ \A k \in ScalarKeys \ {"body_html"} :
              projected.v[k] = IF k \in DOMAIN product.v
                               THEN product.v[k]
                               ELSE PyNone
        /\ projected.v.description = IF "body_html" \in DOMAIN product.v
                                      THEN product.v["body_html"]
                                      ELSE PyStr(<<>>)

\* a product with a title and a creation date and without vendor and body_html
C12_Witness ==
    /\ pc = "extracted"
    /\ DOMAIN product.v = {"title", "created_at"}
    /\ projected.t = "dict"
    /\ projected.v.title = PyVal("title")
    /\ projected.v.created_at = PyVal("created_at")
    /\ projected.v.vendor = PyNone
    /\ projected.v.description = PyStr(<<>>)

\* C15: the output's variants are as many as the raw product's and the i-th
\* is the i-th raw variant reduced to the nine subfields of lines 103-111;
\* the output's images are as many as the raw product's and the i-th is the
\* src of the i-th raw image.
C15_ListsPreserved ==
    (pc = "extracted" /\ projected.t = "dict") =>
        /\ Len(projected.v.variants.v) = Len(RawVariants)
        /\ \A i \in 1..Len(RawVariants) :
              /\ DOMAIN projected.v.variants.v[i].v = VariantKeys
              /\ \A k \in VariantKeys :
                    projected.v.variants.v[i].v[k] =
                        IF k \in DOMAIN RawVariants[i].v
                        THEN RawVariants[i].v[k]
                        ELSE PyNone
        /\ Len(projected.v.images.v) = Len(RawImages)
        /\ \A i \in 1..Len(RawImages) :
              projected.v.images.v[i] =
                  IF "src" \in DOMAIN RawImages[i].v
                  THEN RawImages[i].v["src"]
                  ELSE PyNone

\* two different variants and two different images, the first without a src
C15_Witness ==
    /\ pc = "extracted"
    /\ projected.t = "dict"
    /\ RawVariants = <<VariantWith({"id"}), VariantWith({"id", "sku"})>>
    /\ RawImages = <<PyDict("alt" :> PyStr(<<"b">>)),
                     PyDict("src" :> PyStr(<<"a">>))>>
    /\ projected.v.variants.v[1].v.sku = PyNone
    /\ projected.v.variants.v[2].v.sku = PyVal("sku")
    /\ projected.v.images.v = <<PyNone, PyStr(<<"a">>)>>

-----------------------------------------------------------------------------
(* The normalisation of the store URL, lines 26-28, over command lines     *)
(* whose URL is put together from schemes, slashes and a host letter       *)

UrlParts == {Https, Http, <<"/">>, <<"s">>, <<"h", "t", "t", "p", "s", ":", "/">>}

\* the concatenations of at most n pieces
RECURSIVE UrlsUpTo(_)
UrlsUpTo(n) ==
    IF n = 0
    THEN {<<>>}
    ELSE LET shorter == UrlsUpTo(n - 1)
         IN  shorter \cup {u \o x : u \in shorter, x \in UrlParts}

UrlInit ==
    /\ argv \in {<<Script, u>> : u \in UrlsUpTo(MaxUrlParts)}
    /\ store = "string"
    /\ pc = "main"
    /\ store_url = <<>>
    /\ output_file = <<>>
    /\ all_products = <<>>
    /\ page = 1
    /\ resp = NoResponse
    /\ answers = <<>>
    /\ events = <<>>
    /\ console = <<>>
    /\ file = <<>>
    /\ status = "running"
    /\ product = PyNone
    /\ projected = PyNone

UrlNext == Main_Scrape

UrlSpec == UrlInit /\ [][UrlNext]_vars

HasScheme(s) == StartsWith(s, Http) \/ StartsWith(s, Https)

EndsWithSlash(s) == s # <<>> /\ s[Len(s)] = "/"

\* C18 as stated: for every input the normalised URL starts with http:// or
\* https://, does not end with '/', and normalising it again changes nothing.
C18_Normalized ==
    pc = "loop" =>
        /\ HasScheme(store_url)
        /\ ~EndsWithSlash(store_url)
        /\ NormalizeUrl(store_url) = store_url

\* what is left of the input once a leading http:// or https:// is set aside
AfterScheme(s) ==
    IF StartsWith(s, Https) THEN SubSeq(s, Len(Https) + 1, Len(s))
    ELSE IF StartsWith(s, Http) THEN SubSeq(s, Len(Http) + 1, Len(s))
    ELSE s

\* the input has a character other than '/' after its scheme, if it has one
HasHost(s) == \E i \in 1..Len(AfterScheme(s)) : AfterScheme(s)[i] # "/"

\* C18 amended: for every input the normalised URL does not end with '/';
\* for an input that has a character other than '/' after its optional
\* scheme it starts with http:// or https:// and normalising it again changes
\* nothing; for the other inputs (the empty string, "/", a bare "https://")
\* it is "https:" or "http:", which has no scheme prefix and which
\* normalising again changes.
C18_NormalizedWithHost ==
    pc = "loop" =>
        /\ ~EndsWithSlash(store_url)
        /\ HasHost(argv[2]) =>
              /\ HasScheme(store_url)
              /\ NormalizeUrl(store_url) = store_url
        /\ ~HasHost(argv[2]) =>
              /\ store_url \in {<<"h", "t", "t", "p", "s", ":">>,
                                <<"h", "t", "t", "p", ":">>}
              /\ ~HasScheme(store_url)
              /\ NormalizeUrl(store_url) # store_url

\* an input without a scheme and with two trailing slashes
C18_Witness ==
    /\ pc = "loop"
    /\ argv[2] = <<"s", "/", "/">>
    /\ store_url = Https \o <<"s">>

-----------------------------------------------------------------------------
(* Further claims about the fetch loop and about main *)

\* the answer is a 200 whose JSON object has no products to give: the key is
\* missing, or its value is null or the empty list
NoProductsAnswer(r) ==
    \/ r.kind \in {"ok_nokey", "ok_null"}
    \/ r = [kind |-> "ok", n |-> 0]

C19_Frame ==
    (/\ Len(answers') = Len(answers) + 1
     /\ NoProductsAnswer(Last(answers')))
        => /\ pc' = "returned"
           /\ page' = page
           /\ all_products' = all_products
           /\ console' = console
           /\ status' = status
           /\ events' = Append(events, Req(page))

\* C19: a 200 response whose JSON object has no 'products' key, or whose
\* products are null or empty, stops the loop as an empty page does: nothing
\* is reported, the page counter and the accumulator stay as they were, and
\* the accumulated records are returned.
C19_NoProductsStops == [][C19_Frame]_vars

\* a full page, then a 200 without the products key
C19_Witness ==
    /\ pc = "returned"
    /\ Len(answers) = 2
    /\ answers[1] = [kind |-> "ok", n |-> 250]
    /\ answers[2].kind = "ok_nokey"
    /\ Len(all_products) = 250
    /\ page = 2
    /\ console = <<>>

\* the answers that were pages of at least limit products, in order
FullPages == SelectSeq(answers, LAMBDA r : r.kind = "ok" /\ r.n >= limit)

C16_PageAtLeastOne == page >= 1

C16_Increment ==
    page' # page =>
        /\ page' = page + 1
        /\ pc = "loop"
        /\ Len(answers') = Len(answers) + 1
        /\ Last(answers').kind = "ok"
        /\ Last(answers').n >= limit
        /\ all_products' =
               all_products \o PageProducts(store, page, Last(answers').n)

C16_PagesBefore ==
    pc = "loop" =>
        /\ Len(FullPages) = page - 1
        /\ all_products =
               PagesInOrder(FullPages, [i \in 1..(page - 1) |-> i], page - 1)
        /\ Len(all_products) >= limit * (page - 1)

\* C16: the page counter is at least 1; it changes only by +1, in the pass
\* that has just appended a page of at least 250 products; so whenever the
\* loop is about to request page p, the accumulator is the products of
\* pages 1..p-1, each page once and in order, and has at least 250*(p-1)
\* elements.
C16_PageCounter ==
    /\ []C16_PageAtLeastOne
    /\ []C16_PagesBefore
    /\ [][C16_Increment]_vars

\* two pages of 250 and 251 products behind, page 3 about to be requested
C16_Witness ==
    /\ pc = "loop"
    /\ page = 3
    /\ answers = <<[kind |-> "ok", n |-> 250], [kind |-> "ok", n |-> 251]>>
    /\ Len(all_products) = 501

\* the schedule of answers with every 429 removed
Without429 == SelectSeq(answers, LAMBDA r : r.kind # "http429")

\* how many of the requests issued were for page p
RequestsFor(p) == Cardinality({i \in DOMAIN ReqPages : ReqPages[i] = p})

\* how many of the requests for page p were answered with 429
RateLimitsFor(p) ==
    Cardinality({i \in DOMAIN answers :
                    ReqPages[i] = p /\ answers[i].kind = "http429"})

\* C14: what the Fetcher returns is what the schedule of its answers with
\* the 429s removed gives when its k-th answer is taken as page k: each page
\* of products once and in order, whatever 429s came in between (a run
\* whose schedule has no 429 is one of the runs, so the two runs return the
\* same); and once the loop is over, each page requested was requested once
\* more than it was answered with 429.
C14_RetriesInvisible ==
    /\ Stopped =>
          all_products =
              PagesInOrder(Without429, [i \in 1..Len(Without429) |-> i],
                           Len(Without429))
    /\ pc # "loop" =>
          \A i \in DOMAIN ReqPages :
              RequestsFor(ReqPages[i]) = 1 + RateLimitsFor(ReqPages[i])

\* page 1 is rate-limited once, then answered; page 2 is the last one
C14_Witness ==
    /\ pc = "returned"
    /\ answers = <<[kind |-> "http429", n |-> 0],
                   [kind |-> "ok", n |-> 250],
                   [kind |-> "ok", n |-> 249]>>
    /\ RequestsFor(1) = 2
    /\ RequestsFor(2) = 1
    /\ all_products = PageProducts(store, 1, 250) \o PageProducts(store, 2, 249)

\* scrape_shopify_products has returned to main, and returned no product
ReturnedNothing ==
    /\ pc = "exited"
    /\ ~(Len(argv) < 2)
    /\ all_products = <<>>

C17_NoFileWithoutProducts == ReturnedNothing => (file = <<>> /\ status = "exit1")

C17_WrittenIffSuccess == status # "running" => (file # <<>> <=> status = "exit0")

C17_WriteStep ==
    file' # file =>
        /\ file = <<>>
        /\ pc = "returned"
        /\ all_products # <<>>
        /\ file' = <<CleanedProducts>>
        /\ pc' = "exited"

EndedWithError ==
    /\ answers # <<>>
    /\ Last(answers).kind \in CaughtKinds \cup UncaughtKinds

\* C13: in a finished run whose fetch loop ended with an error, if products
\* had been accumulated the output file holds the projection of each of
\* them, in order, and if none had been the run reported "no products
\* found" and its exit status is 1.  The runs that end in line 139 or line
\* 142 raising are left aside.
C13_OutputAfterError ==
    (/\ EndedWithError
     /\ status # "running"
     /\ ~(pc = "exited" /\ console # <<>> /\ Last(console) = "traceback")) =>
        /\ all_products # <<>> =>
              /\ file = <<CleanedProducts>>
              /\ Len(file[1]) = Len(all_products)
        /\ all_products = <<>> =>
              /\ console # <<>>
              /\ Last(console) = "no_products"
              /\ status = "exit1"

====
